---- MODULE Spec2Model ----
(***************************************************************************)
(* Ledger and deposit reconciliation of the casino bot (src/app.py, with   *)
(* the same command handlers in src/bot.py).                               *)
(*                                                                         *)
(* The store is the Supabase "users" table (balances, deposit_addresses)   *)
(* and the "transactions" table.  Every handler runs as its own request:   *)
(* the Flask routes /telegram and /tatum serve requests concurrently, so   *)
(* the store calls of two handlers interleave.  One action of the model is *)
(* one store call (or notification send) of a handler together with the    *)
(* local computation that precedes it.                                     *)
(*                                                                         *)
(* Amounts are integers counting thousandths of a coin: the default        *)
(* balance 10.0 is 10000 and 0.001 is 1.                                   *)
(***************************************************************************)
EXTENDS Integers, Sequences, FiniteSets, TLC

\* ------------------------------------------------------------ bounds
\* request slots: the number of handlers that can be in flight at once
NProcs == 2
\* requests accepted in one behaviour (commands and webhook deliveries)
MaxOps == 2

Procs == 1..NProcs

\* ------------------------------------------------------------ static tables
valid_cryptos == {"SOL", "LTC", "BTC", "ETH"}

chain_map ==
  ("SOL" :> "solana") @@ ("ETH" :> "ethereum") @@ ("LTC" :> "litecoin") @@ ("BTC" :> "bitcoin")

currency_map ==
  ("SOLANA" :> "SOL") @@ ("ETHEREUM" :> "ETH") @@ ("LITECOIN" :> "LTC") @@ ("BITCOIN" :> "BTC")

\* a table that asks of ETH what it asks of LTC and BTC
ThresholdsEthSix ==
  ("SOL" :> 1) @@ ("ETH" :> 6) @@ ("LTC" :> 6) @@ ("BTC" :> 6)

confirmation_thresholds ==
  ("SOL" :> 1) @@ ("ETH" :> 12) @@ ("LTC" :> 6) @@ ("BTC" :> 6)

\* start(): balances of a new user, in thousandths
DefaultBalances ==
  ("SOL" :> 10000) @@ ("LTC" :> 10000) @@ ("BTC" :> 1) @@ ("ETH" :> 10000)

\* str.upper() on the strings the inputs use
UpperTable ==
  ("btc" :> "BTC") @@ ("sol" :> "SOL") @@ ("eth" :> "ETH") @@ ("bitcoin" :> "BITCOIN")
    @@ ("doge" :> "DOGE")

Upper(s) == IF s \in DOMAIN UpperTable THEN UpperTable[s] ELSE s

TATUM_API_KEY == "tatum-api-key"

\* ------------------------------------------------------------ inputs
UserIds == {1, 2}
TxIds == {"tx1", "tx2"}

\* the deposit addresses issued so far: user 1 asked for SOL and BTC, user 2 for BTC
IssuedAddress ==
  [u \in UserIds |->
     IF u = 1 THEN ("SOL" :> "sol-1") @@ ("BTC" :> "btc-1") ELSE ("BTC" :> "btc-2")]

NoAddress == "none"
\* an empty deposit_addresses object
NoAddresses == [a \in {} |-> NoAddress]
NoTx == "none"
NoUser == 0

VARIABLES
  users,         \* table users: user_id -> [balances, deposit_addresses]
  transactions,  \* table transactions: the rows in insertion order
  pc,            \* per request slot: the store call the handler is about to make
  loc,           \* per request slot: the handler's local variables
  resp,          \* the response of the request that returned last
  notified,      \* deposit confirmations sent: <<chat_id, tx_id>>
  ops,           \* requests accepted so far
  chain,         \* tx_id -> confirmations the transaction has on its chain
  credits,       \* history: tx_id -> user_id -> balance updates written for it
  applied,       \* history: user_id -> asset -> sum of the deltas written
  minted,        \* address issuer: wallets it has generated so far
  subscribed,    \* watcher: addresses with a deposit-monitoring subscription
  shown,         \* history: <<user_id, asset, address>> sent to the user by /deposit
  stored,        \* history: <<user_id, asset, address>> ever written to deposit_addresses
  transfers,     \* history: outbound transfers that reported success
  debits,        \* history: withdrawal debits written to the store
  user_rows      \* table users: user_id -> rows the table holds for the id

\* what the address issuance touches, and what the withdrawal transfer touches
addressVars == <<minted, subscribed, shown, stored>>
outboundVars == <<transfers, debits>>

vars == <<users, transactions, pc, loc, resp, notified, ops, chain, credits, applied,
          minted, subscribed, shown, stored, transfers, debits, user_rows>>

\* ------------------------------------------------------------ responses
Response(status, message) == [status |-> status, message |-> message]

NoResponse == Response(0, "")
\* replies of the command handlers are chat messages (status 0)
Reply(message) == Response(0, message)

NoLocals ==
  [user_id |-> NoUser, crypto |-> "", amount |-> 0, balances |-> DefaultBalances,
   address |-> NoAddress, tx_id |-> NoTx, confirmations |-> 0,
   bet_amount |-> 0, dice1 |-> 0, dice2 |-> 0, deposit_addresses |-> NoAddresses]

\* the handler of slot p returns r
Return(p, r) ==
  /\ pc' = [pc EXCEPT ![p] = "idle"]
  /\ loc' = [loc EXCEPT ![p] = NoLocals]
  /\ resp' = r
  /\ chain' = chain
  /\ user_rows' = user_rows

\* the handler of slot p goes on to its next store call
Goto(p, label, locals) ==
  /\ pc' = [pc EXCEPT ![p] = label]
  /\ loc' = [loc EXCEPT ![p] = locals]
  /\ resp' = resp
  /\ chain' = chain
  /\ user_rows' = user_rows

\* a request is handed to the idle slot p
Accept(p) == pc[p] = "idle"

\* the request budget of a behaviour.  The model follows the users table up to its
\* first duplicate row: which of two rows of one user_id a select returns first is
\* not modelled, so no request is accepted after that.
Budget ==
  /\ ops < MaxOps
  /\ \A u \in DOMAIN user_rows : user_rows[u] <= 1
  /\ ops' = ops + 1

\* ------------------------------------------------------------ webhook payloads
\* dict.get(key, default)
PayloadGet(payload, key, default) ==
  IF key \in DOMAIN payload THEN payload[key] ELSE default

\* HMAC-SHA256 of the serialized payload under a key: equal digests come from
\* equal keys and equal payloads
Hmac(key, payload) == [present |-> TRUE, key |-> key, body |-> payload]

\* a verification that looks at the key of the digest and not at the body it covers
VerifyKeyOnly(payload, signature) ==
  signature.key = TATUM_API_KEY

verify_tatum_signature(payload, signature) ==
  Hmac(TATUM_API_KEY, payload) = signature

\* ------------------------------------------------------------ webhook inputs
Payload(address, amount, currency, txId, confirmations) ==
  [address |-> address, amount |-> amount, currency |-> currency, txId |-> txId,
   confirmations |-> confirmations]

WebhookCurrencies == {"SOLANA", "ETHEREUM", "LITECOIN", "BITCOIN", "bitcoin", "DOGECOIN"}

\* the confirmation counts tried for a currency: one below its threshold and the threshold
ConfirmationsFor(currency) ==
  IF Upper(currency) \in DOMAIN currency_map
    THEN {confirmation_thresholds[currency_map[Upper(currency)]] - 1,
          confirmation_thresholds[currency_map[Upper(currency)]]}
    ELSE {12}

\* one payload per currency and confirmation count, for tx1, to the address user 1
\* holds for the asset (or to an address nobody holds)
GatePayloads ==
  {Payload(IF c = "SOLANA" THEN "sol-1" ELSE IF Upper(c) = "BITCOIN" THEN "btc-1" ELSE "unknown",
           1, c, "tx1", k) : c \in WebhookCurrencies, k \in {0, 1, 5, 6, 11, 12}}

\* confirmed bitcoin deposits: to user 1 under either transaction id, one of them
\* of a negative amount, and to user 2 under the first transaction id
BitcoinPayloads ==
  { Payload("btc-1", 1, "BITCOIN", "tx1", 6), Payload("btc-1", 1, "BITCOIN", "tx2", 6),
    Payload("btc-1", -1, "BITCOIN", "tx2", 6), Payload("btc-2", 1, "BITCOIN", "tx1", 6) }

SignedPayloads ==
  {r \in GatePayloads : r.confirmations \in ConfirmationsFor(r.currency)}
    \cup BitcoinPayloads

\* a delivery: the JSON body and the x-signature header
Delivery(payload, signature) == [payload |-> payload, signature |-> signature]

NoSignature == [present |-> FALSE, key |-> "", body |-> [x \in {} |-> 0]]

ValidDeliveries == {Delivery(q, Hmac(TATUM_API_KEY, q)) : q \in SignedPayloads}

BasePayload == Payload("btc-1", 1, "BITCOIN", "tx1", 6)

\* the signed payload with one field altered after signing
TamperedPayloads ==
  { [BasePayload EXCEPT !.amount = 2], [BasePayload EXCEPT !.address = "btc-2"],
    [BasePayload EXCEPT !.txId = "tx2"], [BasePayload EXCEPT !.confirmations = 12],
    [BasePayload EXCEPT !.currency = "SOLANA"] }

\* an empty JSON object
EmptyPayload == [k \in {} |-> 0]

\* no header, a digest under another key, a body altered after signing, an empty body
\* with a digest, a body without an amount (signed)
OddDeliveries ==
  { Delivery(BasePayload, NoSignature),
    Delivery(BasePayload, Hmac("another-key", BasePayload)),
    Delivery(EmptyPayload, Hmac(TATUM_API_KEY, BasePayload)),
    Delivery([k \in {"address", "currency", "txId", "confirmations"} |-> BasePayload[k]],
             Hmac(TATUM_API_KEY,
                  [k \in {"address", "currency", "txId", "confirmations"} |-> BasePayload[k]])) }
    \cup {Delivery(q, Hmac(TATUM_API_KEY, BasePayload)) : q \in TamperedPayloads}

Deliveries == ValidDeliveries \cup OddDeliveries

\* ------------------------------------------------------------ store queries
\* a duplicate check that compares the wrong column
RowsOfWrongColumn(tx_id) == {i \in DOMAIN transactions : transactions[i].address = tx_id}

\* select id from transactions where tx_id = ...
RowsOf(tx_id) == {i \in DOMAIN transactions : transactions[i].tx_id = tx_id}

\* select user_id, balances from users where deposit_addresses->>crypto = address
UsersAt(crypto, address) ==
  {u \in DOMAIN users :
     /\ crypto \in DOMAIN users[u].deposit_addresses
     /\ users[u].deposit_addresses[crypto] = address}

\* an update of balances that is not filtered by user_id
UpdateBalancesEveryRow(user_id, balances) ==
  [v \in DOMAIN users |-> [users[v] EXCEPT !.balances = balances]]

\* update users set balances = ... where user_id = ...
UpdateBalances(user_id, balances) ==
  IF user_id \in DOMAIN users
    THEN [users EXCEPT ![user_id].balances = balances]
    ELSE users

\* history of the deltas written to a balance
Record(user_id, crypto, delta) ==
  IF user_id \in DOMAIN applied
    THEN [applied EXCEPT ![user_id][crypto] = @ + delta]
    ELSE applied

\* ------------------------------------------------------------ tatum_webhook
\* a gate that also holds back a delivery with exactly the required confirmations
BelowRequiredOffByOne(confirmations, crypto) ==
  confirmations <= (IF crypto \in DOMAIN confirmation_thresholds
                      THEN confirmation_thresholds[crypto] ELSE 1)

\* the threshold gate: confirmations < confirmation_thresholds.get(crypto, 1)
BelowRequired(confirmations, crypto) ==
  confirmations < (IF crypto \in DOMAIN confirmation_thresholds
                     THEN confirmation_thresholds[crypto] ELSE 1)

\* The request arrives; signature, currency and threshold gates; then the duplicate
\* check (the first store call).  db_ok: the store call succeeds (else it raises).
TatumReceive(p, d, db_ok) ==
  /\ Accept(p)
  /\ UNCHANGED <<users, transactions, notified, credits, applied, addressVars, outboundVars>>
  /\ LET payload == d.payload
         signature == d.signature
         address == PayloadGet(payload, "address", NoAddress)
         amount == PayloadGet(payload, "amount", 0)
         currency == Upper(PayloadGet(payload, "currency", ""))
         tx_id == PayloadGet(payload, "txId", NoTx)
         confirmations == PayloadGet(payload, "confirmations", 0)
     IN IF ~signature.present \/ DOMAIN payload = {}
          THEN Return(p, Response(400, "Invalid request"))
        ELSE IF ~verify_tatum_signature(payload, signature)
          THEN Return(p, Response(403, "Invalid signature"))
        ELSE IF currency \notin DOMAIN currency_map
          THEN Return(p, Response(400, "Unsupported currency"))
        ELSE IF BelowRequired(confirmations, currency_map[currency])
          THEN Return(p, Response(200, "Waiting for confirmations"))
        ELSE IF ~db_ok
          THEN Return(p, Response(500, "error"))
        ELSE IF RowsOf(tx_id) # {}
          THEN Return(p, Response(200, "Transaction already processed"))
        ELSE Goto(p, "tatum_user",
                  [NoLocals EXCEPT !.crypto = currency_map[currency], !.amount = amount,
                                   !.address = address, !.tx_id = tx_id,
                                   !.confirmations = confirmations])

\* a user lookup that logs the deposit it cannot match as a transactions row
TatumSelectUserRecordsUnknown(p, db_ok) ==
  /\ pc[p] = "tatum_user"
  /\ UNCHANGED <<users, notified, ops, credits, applied, addressVars, outboundVars>>
  /\ IF ~db_ok
       THEN Return(p, Response(500, "error")) /\ UNCHANGED transactions
     ELSE IF UsersAt(loc[p].crypto, loc[p].address) = {}
       THEN /\ transactions' =
                 Append(transactions,
                        [user_id |-> NoUser, type |-> "deposit",
                         crypto |-> loc[p].crypto, amount |-> loc[p].amount,
                         address |-> loc[p].address, tx_id |-> loc[p].tx_id,
                         confirmations |-> loc[p].confirmations])
            /\ Return(p, Response(404, "User not found"))
     ELSE /\ UNCHANGED transactions
          /\ \E u \in UsersAt(loc[p].crypto, loc[p].address) :
               Goto(p, "tatum_update",
                    [loc[p] EXCEPT !.user_id = u, !.balances = users[u].balances])

\* a user lookup that announces the deposit before it is credited
TatumSelectUserNotifiesFirst(p, db_ok) ==
  /\ pc[p] = "tatum_user"
  /\ UNCHANGED <<users, transactions, notified, ops, credits, applied, addressVars, outboundVars>>
  /\ IF ~db_ok
       THEN Return(p, Response(500, "error"))
     ELSE IF UsersAt(loc[p].crypto, loc[p].address) = {}
       THEN Return(p, Response(404, "User not found"))
     ELSE \E u \in UsersAt(loc[p].crypto, loc[p].address) :
            Goto(p, "tatum_notify",
                 [loc[p] EXCEPT !.user_id = u, !.balances = users[u].balances])

\* a user lookup that acknowledges a deposit it cannot match, to stop the retries
TatumSelectUserAcksUnknown(p, db_ok) ==
  /\ pc[p] = "tatum_user"
  /\ UNCHANGED <<users, transactions, notified, ops, credits, applied, addressVars, outboundVars>>
  /\ IF ~db_ok
       THEN Return(p, Response(500, "error"))
     ELSE IF UsersAt(loc[p].crypto, loc[p].address) = {}
       THEN Return(p, Response(200, "success"))
     ELSE \E u \in UsersAt(loc[p].crypto, loc[p].address) :
            Goto(p, "tatum_update",
                 [loc[p] EXCEPT !.user_id = u, !.balances = users[u].balances])

\* select the user whose stored address for the asset is the payload's
TatumSelectUser(p, db_ok) ==
  /\ pc[p] = "tatum_user"
  /\ UNCHANGED <<users, transactions, notified, ops, credits, applied, addressVars, outboundVars>>
  /\ IF ~db_ok
       THEN Return(p, Response(500, "error"))
     ELSE IF UsersAt(loc[p].crypto, loc[p].address) = {}
       THEN Return(p, Response(404, "User not found"))
     ELSE \E u \in UsersAt(loc[p].crypto, loc[p].address) :
            Goto(p, "tatum_update",
                 [loc[p] EXCEPT !.user_id = u, !.balances = users[u].balances])

\* a balance update whose failure is swallowed: the handler goes on to the insert
TatumUpdateSwallowsError(p, db_ok) ==
  /\ pc[p] = "tatum_update"
  /\ UNCHANGED <<transactions, notified, ops, addressVars, outboundVars>>
  /\ IF ~db_ok
       THEN /\ Goto(p, "tatum_insert", loc[p])
            /\ UNCHANGED <<users, credits, applied>>
       ELSE LET new_balances ==
                  [loc[p].balances EXCEPT ![loc[p].crypto] = @ + loc[p].amount]
            IN /\ users' = UpdateBalances(loc[p].user_id, new_balances)
               /\ credits' = [credits EXCEPT ![loc[p].tx_id][loc[p].user_id] = @ + 1]
               /\ applied' = Record(loc[p].user_id, loc[p].crypto, loc[p].amount)
               /\ Goto(p, "tatum_insert", [loc[p] EXCEPT !.balances = new_balances])

\* new_balances[crypto] += amount; update users
TatumUpdate(p, db_ok) ==
  /\ pc[p] = "tatum_update"
  /\ UNCHANGED <<transactions, notified, ops, addressVars, outboundVars>>
  /\ IF ~db_ok
       THEN /\ Return(p, Response(500, "error"))
            /\ UNCHANGED <<users, credits, applied>>
       ELSE LET new_balances ==
                  [loc[p].balances EXCEPT ![loc[p].crypto] = @ + loc[p].amount]
            IN /\ users' = UpdateBalances(loc[p].user_id, new_balances)
               /\ credits' = [credits EXCEPT ![loc[p].tx_id][loc[p].user_id] = @ + 1]
               /\ applied' = Record(loc[p].user_id, loc[p].crypto, loc[p].amount)
               /\ Goto(p, "tatum_insert", [loc[p] EXCEPT !.balances = new_balances])

\* an insert that logs a store failure and carries on to the notification
TatumInsertSwallowsError(p, db_ok) ==
  /\ pc[p] = "tatum_insert"
  /\ UNCHANGED <<users, notified, ops, credits, applied, addressVars, outboundVars>>
  /\ IF ~db_ok
       THEN /\ Goto(p, "tatum_notify", loc[p])
            /\ UNCHANGED transactions
       ELSE /\ transactions' =
                 Append(transactions,
                        [user_id |-> loc[p].user_id, type |-> "deposit",
                         crypto |-> loc[p].crypto, amount |-> loc[p].amount,
                         address |-> loc[p].address, tx_id |-> loc[p].tx_id,
                         confirmations |-> loc[p].confirmations])
            /\ Goto(p, "tatum_notify", loc[p])

\* insert the transactions row
TatumInsert(p, db_ok) ==
  /\ pc[p] = "tatum_insert"
  /\ UNCHANGED <<users, notified, ops, credits, applied, addressVars, outboundVars>>
  /\ IF ~db_ok
       THEN /\ Return(p, Response(500, "error"))
            /\ UNCHANGED transactions
       ELSE /\ transactions' =
                 Append(transactions,
                        [user_id |-> loc[p].user_id, type |-> "deposit",
                         crypto |-> loc[p].crypto, amount |-> loc[p].amount,
                         address |-> loc[p].address, tx_id |-> loc[p].tx_id,
                         confirmations |-> loc[p].confirmations])
            /\ Goto(p, "tatum_notify", loc[p])

\* a notification step that deletes the transaction's row when the send fails
TatumNotifyRollsBack(p, send_ok) ==
  /\ pc[p] = "tatum_notify"
  /\ UNCHANGED <<users, ops, credits, applied, addressVars, outboundVars>>
  /\ IF send_ok
       THEN /\ notified' = notified \cup {<<loc[p].user_id, loc[p].tx_id>>}
            /\ UNCHANGED transactions
            /\ Return(p, Response(200, "success"))
       ELSE /\ UNCHANGED notified
            /\ LET Kept(r) == r.tx_id # loc[p].tx_id
               IN transactions' = SelectSeq(transactions, Kept)
            /\ Return(p, Response(500, "error"))

\* send the confirmation message; send_ok: the send succeeds (else it raises)
TatumNotify(p, send_ok) ==
  /\ pc[p] = "tatum_notify"
  /\ UNCHANGED <<users, transactions, ops, credits, applied, addressVars, outboundVars>>
  /\ IF send_ok
       THEN /\ notified' = notified \cup {<<loc[p].user_id, loc[p].tx_id>>}
            /\ Return(p, Response(200, "success"))
       ELSE /\ UNCHANGED notified
            /\ Return(p, Response(500, "error"))

\* ------------------------------------------------------------ command inputs
\* user 3 never ran /start
CommandUsers == UserIds \cup {3}
CommandCryptos == {"btc", "doge"}
CommandAmounts == {0, 1, 2}
\* dice pairs (dice1, dice2): the totals 2, 6, 7 and 12
DicePairs == {<<1, 1>>, <<2, 4>>, <<4, 3>>, <<6, 6>>}

\* ------------------------------------------------------------ roll
\* a settlement that adds the displayed winnings (bet_amount * 2) on a win
SettleAddsWinnings(bet_amount, dice1, dice2) ==
  IF dice1 + dice2 >= 7 THEN bet_amount * 2 ELSE 0 - bet_amount

\* the balance delta of a bet: total >= 7 wins the bet, anything else loses it
Settle(bet_amount, dice1, dice2) ==
  IF dice1 + dice2 >= 7 THEN bet_amount ELSE 0 - bet_amount

\* a /roll that looks the user up before it validates the asset
RollValidatesLate(p, user_id, arg, bet_amount, dice1, dice2, db_ok) ==
  /\ Accept(p)
  /\ UNCHANGED <<users, transactions, notified, credits, applied, addressVars, outboundVars>>
  /\ LET crypto == Upper(arg)
     IN IF ~db_ok
          THEN Return(p, Reply("Error accessing the database"))
        ELSE IF user_id \notin DOMAIN users
          THEN Return(p, Reply("not registered"))
        ELSE IF crypto \notin valid_cryptos
          THEN Return(p, Reply("Invalid cryptocurrency"))
        ELSE IF bet_amount <= 0
          THEN Return(p, Reply("Amount must be a positive number"))
        ELSE IF users[user_id].balances[crypto] < bet_amount
          THEN Return(p, Reply("Insufficient balance"))
        ELSE Goto(p, "roll_update",
                  [NoLocals EXCEPT
                     !.user_id = user_id, !.crypto = crypto,
                     !.bet_amount = bet_amount, !.dice1 = dice1, !.dice2 = dice2,
                     !.amount = Settle(bet_amount, dice1, dice2),
                     !.balances = [users[user_id].balances EXCEPT
                                     ![crypto] = @ + Settle(bet_amount, dice1, dice2)]])

\* /roll <crypto> <amount>: validation, the select of the user's balances, the
\* balance check and the dice.  The update is the next step.
Roll(p, user_id, arg, bet_amount, dice1, dice2, db_ok) ==
  /\ Accept(p)
  /\ UNCHANGED <<users, transactions, notified, credits, applied, addressVars, outboundVars>>
  /\ LET crypto == Upper(arg)
     IN IF crypto \notin valid_cryptos
          THEN Return(p, Reply("Invalid cryptocurrency"))
        ELSE IF bet_amount <= 0
          THEN Return(p, Reply("Amount must be a positive number"))
        ELSE IF ~db_ok
          THEN Return(p, Reply("Error accessing the database"))
        ELSE IF user_id \notin DOMAIN users
          THEN Return(p, Reply("not registered"))
        ELSE IF users[user_id].balances[crypto] < bet_amount
          THEN Return(p, Reply("Insufficient balance"))
        ELSE Goto(p, "roll_update",
                  [NoLocals EXCEPT
                     !.user_id = user_id, !.crypto = crypto,
                     !.bet_amount = bet_amount, !.dice1 = dice1, !.dice2 = dice2,
                     !.amount = Settle(bet_amount, dice1, dice2),
                     !.balances = [users[user_id].balances EXCEPT
                                     ![crypto] = @ + Settle(bet_amount, dice1, dice2)]])

\* update users set balances = updated_balances
RollUpdate(p, db_ok) ==
  /\ pc[p] = "roll_update"
  /\ UNCHANGED <<transactions, notified, ops, credits, addressVars, outboundVars>>
  /\ IF ~db_ok
       THEN /\ Return(p, Reply("Error accessing the database"))
            /\ UNCHANGED <<users, applied>>
       ELSE /\ users' = UpdateBalances(loc[p].user_id, loc[p].balances)
            /\ applied' = Record(loc[p].user_id, loc[p].crypto, loc[p].amount)
            /\ Return(p, Reply(IF loc[p].amount > 0 THEN "You won" ELSE "You lost"))

\* ------------------------------------------------------------ withdraw
\* a transfer whose failure is lost: the except clause reports success
ProcessWithdrawalIgnoresError(crypto, transfer_ok) == crypto \in DOMAIN chain_map

\* the simulated transfer: it succeeds for every asset of chain_map, unless its body
\* raises (transfer_ok = FALSE), which the except clause turns into a failure
process_withdrawal(crypto, transfer_ok) == crypto \in DOMAIN chain_map /\ transfer_ok

\* /withdraw <crypto> <amount> <address>: validation, the select of the user's
\* balances, the balance check and the transfer.  The update is the next step.
Withdraw(p, user_id, arg, amount, db_ok, transfer_ok) ==
  /\ Accept(p)
  /\ UNCHANGED <<users, transactions, notified, credits, applied, addressVars, debits>>
  /\ LET crypto == Upper(arg)
     IN IF crypto \notin valid_cryptos
          THEN Return(p, Reply("Invalid cryptocurrency")) /\ UNCHANGED transfers
        ELSE IF amount <= 0
          THEN Return(p, Reply("Amount must be a positive number")) /\ UNCHANGED transfers
        ELSE IF ~db_ok
          THEN /\ Return(p, Reply("An error occurred while processing the withdrawal"))
               /\ UNCHANGED transfers
        ELSE IF user_id \notin DOMAIN users
          THEN Return(p, Reply("not registered")) /\ UNCHANGED transfers
        ELSE IF users[user_id].balances[crypto] < amount
          THEN Return(p, Reply("Insufficient balance")) /\ UNCHANGED transfers
        ELSE IF ~process_withdrawal(crypto, transfer_ok)
          THEN Return(p, Reply("Withdrawal failed")) /\ UNCHANGED transfers
        ELSE /\ transfers' = transfers + 1
             /\ Goto(p, "withdraw_update",
                     [NoLocals EXCEPT
                        !.user_id = user_id, !.crypto = crypto, !.amount = 0 - amount,
                        !.balances = [users[user_id].balances EXCEPT ![crypto] = @ - amount]])

\* update users set balances = updated_balances
WithdrawUpdate(p, db_ok) ==
  /\ pc[p] = "withdraw_update"
  /\ UNCHANGED <<transactions, notified, ops, credits, addressVars, transfers>>
  /\ IF ~db_ok
       THEN /\ Return(p, Reply("An error occurred while processing the withdrawal"))
            /\ UNCHANGED <<users, applied, debits>>
       ELSE /\ users' = UpdateBalances(loc[p].user_id, loc[p].balances)
            /\ applied' = Record(loc[p].user_id, loc[p].crypto, loc[p].amount)
            /\ debits' = debits + 1
            /\ Return(p, Reply("Successfully withdrew"))

\* ------------------------------------------------------------ start
\* /start: the select of the user's row; a user that has one is welcomed back
Start(p, user_id, db_ok) ==
  /\ Accept(p)
  /\ UNCHANGED <<users, transactions, notified, credits, applied, addressVars, outboundVars>>
  /\ IF ~db_ok
       THEN Return(p, Reply("Error accessing the database"))
     ELSE IF user_id \in DOMAIN users
       THEN Return(p, Reply("Welcome back"))
     ELSE Goto(p, "start_insert", [NoLocals EXCEPT !.user_id = user_id])

\* insert into users (user_id, balances, deposit_addresses).  The repository does not
\* say whether the table rejects a second row for a user_id: unique tells whether
\* this store does (the insert then raises) or takes the row.
StartInsert(p, db_ok, unique) ==
  /\ pc[p] = "start_insert"
  /\ UNCHANGED <<transactions, notified, ops, credits, applied, addressVars, outboundVars,
                 chain>>
  /\ pc' = [pc EXCEPT ![p] = "idle"]
  /\ loc' = [loc EXCEPT ![p] = NoLocals]
  /\ IF ~db_ok \/ (loc[p].user_id \in DOMAIN users /\ unique)
       THEN /\ resp' = Reply("Error accessing the database")
            /\ UNCHANGED <<users, user_rows>>
       ELSE /\ users' =
                 IF loc[p].user_id \in DOMAIN users
                   THEN users
                   ELSE users @@ (loc[p].user_id :>
                                    [balances |-> DefaultBalances,
                                     deposit_addresses |-> NoAddresses])
            /\ user_rows' = [user_rows EXCEPT ![loc[p].user_id] = @ + 1]
            /\ resp' = Reply("Welcome to the Casino Bot")

\* a /balance that registers the user it does not find
BalanceRegisters(p, user_id, db_ok) ==
  /\ Accept(p)
  /\ UNCHANGED <<transactions, notified, credits, applied, addressVars, outboundVars>>
  /\ IF ~db_ok
       THEN UNCHANGED users /\ Return(p, Reply("Error accessing the database"))
     ELSE IF user_id \notin DOMAIN users
       THEN /\ users' = users @@ (user_id :> [balances |-> DefaultBalances,
                                              deposit_addresses |-> NoAddresses])
            /\ Return(p, Reply("Your balances"))
     ELSE UNCHANGED users /\ Return(p, Reply("Your balances"))

\* ------------------------------------------------------------ balance
\* /balance: the select of the user's balances and the reply that lists them
Balance(p, user_id, db_ok) ==
  /\ Accept(p)
  /\ UNCHANGED <<users, transactions, notified, credits, applied, addressVars, outboundVars>>
  /\ IF ~db_ok
       THEN Return(p, Reply("Error accessing the database"))
     ELSE IF user_id \notin DOMAIN users
       THEN Return(p, Reply("not registered"))
     ELSE Return(p, Reply("Your balances"))

\* ------------------------------------------------------------ deposit
\* the addresses the issuer hands out, in order: every wallet it generates is new
FreshAddresses == <<"new-1", "new-2", "new-3", "new-4">>

DepositCryptos == {"btc", "sol", "eth", "doge"}

\* POST /subscription for the address: TRUE when the watcher registered it
create_tatum_subscription(address, crypto, sub_ok) ==
  crypto \in DOMAIN chain_map /\ sub_ok

\* an issuance that gives up when the subscription cannot be registered
GenerateRequiresSubscription(crypto, wallet_ok, address_ok, sub_ok) ==
  IF crypto \notin DOMAIN chain_map THEN NoAddress
  ELSE IF ~wallet_ok THEN NoAddress
  ELSE IF chain_map[crypto] # "solana" /\ ~address_ok THEN NoAddress
  ELSE IF ~sub_ok THEN NoAddress
  ELSE FreshAddresses[minted + 1]

\* the issuer's calls for an asset: the wallet (solana: it carries the address), for
\* the other chains the xpub and then the address of index 0; then the subscription,
\* whose result is not looked at.  NoAddress stands for None.
generate_deposit_address(crypto, wallet_ok, address_ok, sub_ok) ==
  IF crypto \notin DOMAIN chain_map THEN NoAddress
  ELSE IF ~wallet_ok THEN NoAddress
  ELSE IF chain_map[crypto] = "solana" THEN FreshAddresses[minted + 1]
  ELSE IF ~address_ok THEN NoAddress
  ELSE FreshAddresses[minted + 1]

\* a /deposit that never looks at the stored address: it issues one every time
DepositIgnoresCache(p, user_id, arg, db_ok) ==
  /\ Accept(p)
  /\ UNCHANGED <<users, transactions, notified, credits, applied, addressVars, outboundVars>>
  /\ LET crypto == Upper(arg)
     IN IF crypto \notin valid_cryptos
          THEN Return(p, Reply("Invalid cryptocurrency"))
        ELSE IF ~db_ok
          THEN Return(p, Reply("An error occurred while generating the deposit address"))
        ELSE IF user_id \notin DOMAIN users
          THEN Return(p, Reply("not registered"))
        ELSE Goto(p, "deposit_generate",
                  [NoLocals EXCEPT
                     !.user_id = user_id, !.crypto = crypto,
                     !.deposit_addresses = users[user_id].deposit_addresses])

\* /deposit <crypto>: validation and the select of the user's deposit_addresses; a
\* cached address goes straight to the reply
Deposit(p, user_id, arg, db_ok) ==
  /\ Accept(p)
  /\ UNCHANGED <<users, transactions, notified, credits, applied, addressVars, outboundVars>>
  /\ LET crypto == Upper(arg)
     IN IF crypto \notin valid_cryptos
          THEN Return(p, Reply("Invalid cryptocurrency"))
        ELSE IF ~db_ok
          THEN Return(p, Reply("An error occurred while generating the deposit address"))
        ELSE IF user_id \notin DOMAIN users
          THEN Return(p, Reply("not registered"))
        ELSE IF crypto \in DOMAIN users[user_id].deposit_addresses
          THEN Goto(p, "deposit_send",
                    [NoLocals EXCEPT
                       !.user_id = user_id, !.crypto = crypto,
                       !.deposit_addresses = users[user_id].deposit_addresses,
                       !.address = users[user_id].deposit_addresses[crypto]])
        ELSE Goto(p, "deposit_generate",
                  [NoLocals EXCEPT
                     !.user_id = user_id, !.crypto = crypto,
                     !.deposit_addresses = users[user_id].deposit_addresses])

\* address = generate_deposit_address(crypto); deposit_addresses[crypto] = address
DepositGenerate(p, wallet_ok, address_ok, sub_ok) ==
  /\ pc[p] = "deposit_generate"
  /\ minted < Len(FreshAddresses)
  /\ UNCHANGED <<users, transactions, notified, ops, credits, applied, shown, stored,
                 outboundVars>>
  /\ LET crypto == loc[p].crypto
         address == generate_deposit_address(crypto, wallet_ok, address_ok, sub_ok)
     IN /\ minted' = IF crypto \in DOMAIN chain_map /\ wallet_ok THEN minted + 1 ELSE minted
        /\ subscribed' =
             IF /\ crypto \in DOMAIN chain_map /\ wallet_ok
                /\ (chain_map[crypto] = "solana" \/ address_ok)
                /\ create_tatum_subscription(FreshAddresses[minted + 1], crypto, sub_ok)
               THEN subscribed \cup {FreshAddresses[minted + 1]}
               ELSE subscribed
        /\ IF address = NoAddress
             THEN Return(p, Reply("Failed to generate a deposit address"))
             ELSE Goto(p, "deposit_update",
                       [loc[p] EXCEPT
                          !.address = address,
                          !.deposit_addresses = (crypto :> address) @@ loc[p].deposit_addresses])

\* an update whose failure is swallowed: the handler goes on to send the address
DepositUpdateSwallowsError(p, db_ok) ==
  /\ pc[p] = "deposit_update"
  /\ UNCHANGED <<transactions, notified, ops, credits, applied, minted, subscribed, shown,
                 outboundVars>>
  /\ IF ~db_ok
       THEN /\ Goto(p, "deposit_send", loc[p])
            /\ UNCHANGED <<users, stored>>
       ELSE /\ users' = [users EXCEPT
                           ![loc[p].user_id].deposit_addresses = loc[p].deposit_addresses]
            /\ stored' = stored \cup {<<loc[p].user_id, loc[p].crypto, loc[p].address>>}
            /\ Goto(p, "deposit_send", loc[p])

\* update users set deposit_addresses = deposit_addresses
DepositUpdate(p, db_ok) ==
  /\ pc[p] = "deposit_update"
  /\ UNCHANGED <<transactions, notified, ops, credits, applied, minted, subscribed, shown,
                 outboundVars>>
  /\ IF ~db_ok
       THEN /\ Return(p, Reply("An error occurred while generating the deposit address"))
            /\ UNCHANGED <<users, stored>>
       ELSE /\ users' = [users EXCEPT
                           ![loc[p].user_id].deposit_addresses = loc[p].deposit_addresses]
            /\ stored' = stored \cup {<<loc[p].user_id, loc[p].crypto, loc[p].address>>}
            /\ Goto(p, "deposit_send", loc[p])

\* send "Your <crypto> deposit address: <address>"; send_ok: the send succeeds
DepositSend(p, send_ok) ==
  /\ pc[p] = "deposit_send"
  /\ UNCHANGED <<users, transactions, notified, ops, credits, applied, minted, subscribed,
                 stored, outboundVars>>
  /\ IF send_ok
       THEN /\ shown' = shown \cup {<<loc[p].user_id, loc[p].crypto, loc[p].address>>}
            /\ Return(p, Reply(loc[p].address))
       ELSE /\ UNCHANGED shown
            /\ Return(p, Reply("An error occurred while generating the deposit address"))

\* the process serving the request dies between two store calls: no response
Crash(p) ==
  /\ pc[p] # "idle"
  /\ Return(p, NoResponse)
  /\ UNCHANGED <<users, transactions, notified, ops, credits, applied, addressVars, outboundVars>>

Init ==
  /\ users = [u \in UserIds |->
                [balances |-> DefaultBalances, deposit_addresses |-> IssuedAddress[u]]]
  /\ transactions = <<>>
  /\ pc = [p \in Procs |-> "idle"]
  /\ loc = [p \in Procs |-> NoLocals]
  /\ resp = NoResponse
  /\ notified = {}
  /\ ops = 0
  /\ chain = [t \in TxIds |-> 0]
  /\ credits = [t \in TxIds |-> [u \in UserIds |-> 0]]
  /\ applied = [u \in CommandUsers |-> [a \in valid_cryptos |-> 0]]
  /\ minted = 0
  /\ subscribed = {}
  /\ shown = {}
  /\ stored = UNION {{<<u, a, IssuedAddress[u][a]>> : a \in DOMAIN IssuedAddress[u]} :
                        u \in UserIds}
  /\ transfers = 0
  /\ debits = 0
  /\ user_rows = [u \in CommandUsers |-> IF u \in UserIds THEN 1 ELSE 0]

\* ------------------------------------------------------------ specifications
\* every handler, with store calls and sends that may fail and processes that may die
Next ==
  \/ \E p \in Procs, d \in Deliveries, ok \in BOOLEAN : Budget /\ TatumReceive(p, d, ok)
  \/ \E p \in Procs, ok \in BOOLEAN : TatumSelectUser(p, ok)
  \/ \E p \in Procs, ok \in BOOLEAN : TatumUpdate(p, ok)
  \/ \E p \in Procs, ok \in BOOLEAN : TatumInsert(p, ok)
  \/ \E p \in Procs, ok \in BOOLEAN : TatumNotify(p, ok)
  \/ \E p \in Procs, u \in CommandUsers, c \in CommandCryptos, a \in CommandAmounts,
        d \in DicePairs, ok \in BOOLEAN : Budget /\ Roll(p, u, c, a, d[1], d[2], ok)
  \/ \E p \in Procs, ok \in BOOLEAN : RollUpdate(p, ok)
  \/ \E p \in Procs, u \in CommandUsers, c \in CommandCryptos, a \in CommandAmounts,
        ok \in BOOLEAN, t \in BOOLEAN : Budget /\ Withdraw(p, u, c, a, ok, t)
  \/ \E p \in Procs, ok \in BOOLEAN : WithdrawUpdate(p, ok)
  \/ \E p \in Procs, u \in CommandUsers, c \in DepositCryptos, ok \in BOOLEAN :
        Budget /\ Deposit(p, u, c, ok)
  \/ \E p \in Procs, w \in BOOLEAN, a \in BOOLEAN, s \in BOOLEAN : DepositGenerate(p, w, a, s)
  \/ \E p \in Procs, ok \in BOOLEAN : DepositUpdate(p, ok)
  \/ \E p \in Procs, ok \in BOOLEAN : DepositSend(p, ok)
  \/ \E p \in Procs, u \in CommandUsers, ok \in BOOLEAN : Budget /\ Start(p, u, ok)
  \/ \E p \in Procs, ok \in BOOLEAN, unique \in BOOLEAN : StartInsert(p, ok, unique)
  \/ \E p \in Procs, u \in CommandUsers, ok \in BOOLEAN : Budget /\ Balance(p, u, ok)
  \/ \E p \in Procs : Crash(p)

Spec == Init /\ [][Next]_vars

\* the command handlers alone (the whole of bot.py): requests that overlap, store
\* calls that may fail.  Amounts: a rejected one and a payable one; dice: a losing
\* and a winning total; assets: one with a stored address, one without, one
\* unsupported.
BotAmounts == {0, 1}
BotDice == {<<1, 1>>, <<4, 3>>}
BotCryptos == {"btc", "eth", "doge"}

NextBot ==
  \/ \E p \in Procs, u \in CommandUsers, ok \in BOOLEAN : Budget /\ Start(p, u, ok)
  \/ \E p \in Procs, ok \in BOOLEAN, unique \in BOOLEAN : StartInsert(p, ok, unique)
  \/ \E p \in Procs, u \in CommandUsers, ok \in BOOLEAN : Budget /\ Balance(p, u, ok)
  \/ \E p \in Procs, u \in CommandUsers, c \in BotCryptos, a \in BotAmounts,
        d \in BotDice, ok \in BOOLEAN : Budget /\ Roll(p, u, c, a, d[1], d[2], ok)
  \/ \E p \in Procs, ok \in BOOLEAN : RollUpdate(p, ok)
  \/ \E p \in Procs, u \in CommandUsers, c \in BotCryptos, a \in BotAmounts,
        ok \in BOOLEAN, t \in BOOLEAN : Budget /\ Withdraw(p, u, c, a, ok, t)
  \/ \E p \in Procs, ok \in BOOLEAN : WithdrawUpdate(p, ok)
  \/ \E p \in Procs, u \in CommandUsers, c \in BotCryptos, ok \in BOOLEAN :
        Budget /\ Deposit(p, u, c, ok)
  \/ \E p \in Procs, w \in BOOLEAN, a \in BOOLEAN, s \in BOOLEAN : DepositGenerate(p, w, a, s)
  \/ \E p \in Procs, ok \in BOOLEAN : DepositUpdate(p, ok)
  \/ \E p \in Procs, ok \in BOOLEAN : DepositSend(p, ok)

SpecBot == Init /\ [][NextBot]_vars

\* the handlers that write a user row, for the two registered users: confirmed
\* deposits (BTC and SOL to user 1, BTC to user 2), bets, withdrawals and address
\* requests, overlapping freely; the store calls of the webhook and the writes of
\* the commands may fail, the sends do not
LedgerDeliveries ==
  {Delivery(q, Hmac(TATUM_API_KEY, q)) :
     q \in { Payload("btc-1", 1, "BITCOIN", "tx1", confirmation_thresholds["BTC"]),
             Payload("sol-1", 1, "SOLANA", "tx2", confirmation_thresholds["SOL"]),
             Payload("btc-2", 1, "BITCOIN", "tx2", confirmation_thresholds["BTC"]) }}
LedgerCryptos == {"btc", "sol"}

NextLedger ==
  \/ \E p \in Procs, d \in LedgerDeliveries, ok \in BOOLEAN :
        Budget /\ TatumReceive(p, d, ok)
  \/ \E p \in Procs, ok \in BOOLEAN : TatumSelectUser(p, ok)
  \/ \E p \in Procs, ok \in BOOLEAN : TatumUpdate(p, ok)
  \/ \E p \in Procs, ok \in BOOLEAN : TatumInsert(p, ok)
  \/ \E p \in Procs : TatumNotify(p, TRUE)
  \/ \E p \in Procs, u \in UserIds, c \in LedgerCryptos, d \in BotDice :
        Budget /\ Roll(p, u, c, 1, d[1], d[2], TRUE)
  \/ \E p \in Procs, ok \in BOOLEAN : RollUpdate(p, ok)
  \/ \E p \in Procs, u \in UserIds, c \in LedgerCryptos :
        Budget /\ Withdraw(p, u, c, 1, TRUE, TRUE)
  \/ \E p \in Procs, ok \in BOOLEAN : WithdrawUpdate(p, ok)
  \/ \E p \in Procs, u \in UserIds : Budget /\ Deposit(p, u, "eth", TRUE)
  \/ \E p \in Procs : DepositGenerate(p, TRUE, TRUE, TRUE)
  \/ \E p \in Procs, ok \in BOOLEAN : DepositUpdate(p, ok)
  \/ \E p \in Procs : DepositSend(p, TRUE)

SpecLedger == Init /\ [][NextLedger]_vars

\* the command handlers serving one request at a time (the first slot), with store
\* calls, issuer calls, transfers and sends that may fail.  Users: a registered one
\* and one without a row; assets for bets and withdrawals: a supported and an
\* unsupported one.
ServeUsers == {1, 3}
ServeCryptos == {"btc", "doge"}

NextServe ==
  \/ /\ \A q \in Procs : pc[q] = "idle"
     /\ Budget
     /\ \/ \E u \in ServeUsers, ok \in BOOLEAN : Start(1, u, ok)
        \/ \E u \in ServeUsers, ok \in BOOLEAN : Balance(1, u, ok)
        \/ \E u \in ServeUsers, c \in ServeCryptos, a \in BotAmounts, d \in BotDice,
              ok \in BOOLEAN : Roll(1, u, c, a, d[1], d[2], ok)
        \/ \E u \in ServeUsers, c \in ServeCryptos, a \in BotAmounts, ok \in BOOLEAN,
              t \in BOOLEAN : Withdraw(1, u, c, a, ok, t)
        \/ \E u \in ServeUsers, c \in BotCryptos, ok \in BOOLEAN : Deposit(1, u, c, ok)
  \/ \E p \in Procs, ok \in BOOLEAN, unique \in BOOLEAN : StartInsert(p, ok, unique)
  \/ \E p \in Procs, ok \in BOOLEAN : RollUpdate(p, ok)
  \/ \E p \in Procs, ok \in BOOLEAN : WithdrawUpdate(p, ok)
  \/ \E p \in Procs, w \in BOOLEAN, a \in BOOLEAN, s \in BOOLEAN : DepositGenerate(p, w, a, s)
  \/ \E p \in Procs, ok \in BOOLEAN : DepositUpdate(p, ok)
  \/ \E p \in Procs, ok \in BOOLEAN : DepositSend(p, ok)

SpecServe == Init /\ [][NextServe]_vars

\* /roll alone, one request at a time (served by the first slot), with every dice
\* pair of 1..6 x 1..6 and a select that does not fail
WagerCryptos == {"btc", "sol"}
\* bets in thousandths: the smallest (all of the default BTC), the whole default
\* balance 10.0, more than it
WagerAmounts == {1, 10000, 10001}
Dice == 1..6

NextWager ==
  \/ /\ \A q \in Procs : pc[q] = "idle"
     /\ Budget
     /\ \E u \in CommandUsers, c \in WagerCryptos, a \in WagerAmounts,
           dice1 \in Dice, dice2 \in Dice : Roll(1, u, c, a, dice1, dice2, TRUE)
  \/ \E p \in Procs, ok \in BOOLEAN : RollUpdate(p, ok)

SpecWager == Init /\ [][NextWager]_vars

\* /deposit alone: requests that overlap, issuer, store and send calls that may fail,
\* processes that may die
NextAddress ==
  \/ \E p \in Procs, u \in CommandUsers, c \in DepositCryptos, ok \in BOOLEAN :
        Budget /\ Deposit(p, u, c, ok)
  \/ \E p \in Procs, w \in BOOLEAN, a \in BOOLEAN, s \in BOOLEAN : DepositGenerate(p, w, a, s)
  \/ \E p \in Procs, ok \in BOOLEAN : DepositUpdate(p, ok)
  \/ \E p \in Procs, ok \in BOOLEAN : DepositSend(p, ok)
  \/ \E p \in Procs : Crash(p)

SpecAddress == Init /\ [][NextAddress]_vars

\* the webhook alone: deliveries that overlap, store calls and sends that may fail,
\* processes that may die
NextDeposit ==
  \/ \E p \in Procs, d \in Deliveries, ok \in BOOLEAN : Budget /\ TatumReceive(p, d, ok)
  \/ \E p \in Procs, ok \in BOOLEAN : TatumSelectUser(p, ok)
  \/ \E p \in Procs, ok \in BOOLEAN : TatumUpdate(p, ok)
  \/ \E p \in Procs, ok \in BOOLEAN : TatumInsert(p, ok)
  \/ \E p \in Procs, ok \in BOOLEAN : TatumNotify(p, ok)
  \/ \E p \in Procs : Crash(p)

SpecDeposit == Init /\ [][NextDeposit]_vars

\* the commands alone: /roll and /withdraw requests that overlap
NextCommands ==
  \/ \E p \in Procs, u \in CommandUsers, c \in CommandCryptos, a \in CommandAmounts,
        d \in DicePairs, ok \in BOOLEAN : Budget /\ Roll(p, u, c, a, d[1], d[2], ok)
  \/ \E p \in Procs, ok \in BOOLEAN : RollUpdate(p, ok)
  \/ \E p \in Procs, u \in CommandUsers, c \in CommandCryptos, a \in CommandAmounts,
        ok \in BOOLEAN, t \in BOOLEAN : Budget /\ Withdraw(p, u, c, a, ok, t)
  \/ \E p \in Procs, ok \in BOOLEAN : WithdrawUpdate(p, ok)

SpecCommands == Init /\ [][NextCommands]_vars

\* ------------------------------------------------------------ history sums
\* balance updates written for a transaction id, over all users
TotalCredits(tx_id) == credits[tx_id][1] + credits[tx_id][2]

\* rows of the transactions table that carry the transaction id
RowCount(tx_id) == Cardinality({i \in DOMAIN transactions : transactions[i].tx_id = tx_id})

\* a delivery of the transaction id is being served
InFlight(tx_id) == \E p \in Procs : pc[p] # "idle" /\ loc[p].tx_id = tx_id

\* the webhook with a store that never fails: deliveries overlap freely
NextOverlap ==
  \/ \E p \in Procs, d \in Deliveries : Budget /\ TatumReceive(p, d, TRUE)
  \/ \E p \in Procs : TatumSelectUser(p, TRUE)
  \/ \E p \in Procs : TatumUpdate(p, TRUE)
  \/ \E p \in Procs : TatumInsert(p, TRUE)
  \/ \E p \in Procs, ok \in BOOLEAN : TatumNotify(p, ok)

SpecOverlap == Init /\ [][NextOverlap]_vars

\* the webhook with a store that never fails, the sender delivering a transaction id
\* again only after the previous delivery of it has returned
NextSequential ==
  \/ \E p \in Procs, d \in Deliveries :
        /\ ~InFlight(PayloadGet(d.payload, "txId", NoTx))
        /\ Budget
        /\ TatumReceive(p, d, TRUE)
  \/ \E p \in Procs : TatumSelectUser(p, TRUE)
  \/ \E p \in Procs : TatumUpdate(p, TRUE)
  \/ \E p \in Procs : TatumInsert(p, TRUE)
  \/ \E p \in Procs, ok \in BOOLEAN : TatumNotify(p, ok)

SpecSequential == Init /\ [][NextSequential]_vars

\* ------------------------------------------------------------ redelivery
\* the payload the sender delivers for a transaction: a bitcoin deposit to user 1
\* (tx1) or a solana deposit to user 1 (tx2), with the confirmations it has by now
SenderPayload(tx_id) ==
  IF tx_id = "tx1"
    THEN Payload("btc-1", 1, "BITCOIN", tx_id, chain[tx_id])
    ELSE Payload("sol-1", 1, "SOLANA", tx_id, chain[tx_id])

\* the transaction gains a confirmation, up to the count its asset requires
Confirm(tx_id) ==
  /\ chain[tx_id] < confirmation_thresholds[currency_map[SenderPayload(tx_id).currency]]
  /\ chain' = [chain EXCEPT ![tx_id] = @ + 1]
  /\ UNCHANGED <<users, transactions, pc, loc, resp, notified, ops, credits, applied,
                 addressVars, outboundVars, user_rows>>

\* the sender delivers the transaction again, once its previous delivery has returned
Redeliver(p, tx_id) ==
  /\ ~InFlight(tx_id)
  /\ ops' = ops
  /\ TatumReceive(p, Delivery(SenderPayload(tx_id), Hmac(TATUM_API_KEY, SenderPayload(tx_id))), TRUE)

\* the steps of the request in slot p, with a store that never fails
Serve(p) ==
  \/ TatumSelectUser(p, TRUE)
  \/ TatumUpdate(p, TRUE)
  \/ TatumInsert(p, TRUE)
  \/ \E ok \in BOOLEAN : TatumNotify(p, ok)

NextRedelivery ==
  \/ \E t \in TxIds : Confirm(t)
  \/ \E p \in Procs, t \in TxIds : Redeliver(p, t)
  \/ \E p \in Procs : Serve(p)

\* every request in service goes on, every transaction keeps gaining confirmations
\* and the sender keeps delivering it
SpecRedelivery ==
  /\ Init
  /\ [][NextRedelivery]_vars
  /\ \A p \in Procs : WF_vars(Serve(p))
  /\ \A t \in TxIds : WF_vars(Confirm(t))
  /\ \A t \in TxIds : SF_vars(\E p \in Procs : Redeliver(p, t))

\* ------------------------------------------------------------ claims
\* C1: in every reachable state every stored balance of every user for every asset
\* is >= 0, under any interleaving of Roll, Withdraw and webhook deliveries.
C1_BalancesNonNegative ==
  \A u \in DOMAIN users : \A a \in valid_cryptos : users[u].balances[a] >= 0

\* C2: no lost update: the stored balance of a user and asset is the initial balance
\* plus the sum of the deltas of all the accepted operations (the updates written so
\* far), whatever the interleaving of their reads and writes.
C2_NoLostUpdate ==
  \A u \in DOMAIN users : \A a \in valid_cryptos :
     users[u].balances[a] = DefaultBalances[a] + applied[u][a]

\* C3: with only Withdraw and Roll running, the debits accepted never exceed the
\* initial balance plus the credits (wins) applied before them: the initial balance
\* plus the sum of all accepted deltas never goes below zero.
C3_NoOverdraft ==
  \A u \in DOMAIN users : \A a \in valid_cryptos : DefaultBalances[a] + applied[u][a] >= 0

\* the confirmations each asset requires, as the specification lists them
RequiredConfirmations == ("SOL" :> 1) @@ ("ETH" :> 12) @@ ("LTC" :> 6) @@ ("BTC" :> 6)

\* the payload names a supported currency and carries at least (fewer than) the
\* required confirmations
ThresholdMet(payload) ==
  /\ Upper(payload.currency) \in DOMAIN currency_map
  /\ payload.confirmations >= RequiredConfirmations[currency_map[Upper(payload.currency)]]

BelowThreshold(payload) ==
  /\ Upper(payload.currency) \in DOMAIN currency_map
  /\ payload.confirmations < RequiredConfirmations[currency_map[Upper(payload.currency)]]

\* C4: sequential redelivery is idempotent.  With deliveries of one transaction id
\* made one after another: the credit is written at most once and at most one row
\* exists; a delivery that gets as far as the notification leaves exactly one credit
\* and exactly one row; and a signed, confirmed delivery that arrives when the row
\* exists returns 200 ("already processed") and changes neither balances nor the log.
C4_SequentialIdempotent ==
  /\ [](\A t \in TxIds : TotalCredits(t) <= 1 /\ RowCount(t) <= 1)
  /\ [][\A p \in Procs :
          (pc[p] = "tatum_notify" /\ pc'[p] = "idle")
            => (TotalCredits(loc[p].tx_id) = 1 /\ RowCount(loc[p].tx_id) = 1)]_vars
  /\ [][\A p \in Procs, d \in ValidDeliveries :
          (/\ ThresholdMet(d.payload)
           /\ RowCount(d.payload.txId) >= 1
           /\ TatumReceive(p, d, TRUE))
            => (/\ resp' = Response(200, "Transaction already processed")
                /\ pc'[p] = "idle"
                /\ UNCHANGED <<users, transactions, credits, notified>>)]_vars

\* C4 witness: a redelivery was answered "already processed" after one credit and one row
C4_Witness ==
  /\ resp = Response(200, "Transaction already processed")
  /\ TotalCredits("tx1") = 1
  /\ RowCount("tx1") = 1

\* C5: concurrent redelivery is idempotent: whatever the interleaving of deliveries
\* carrying the same transaction id, the credit is written at most once, to one user,
\* and at most one transactions row exists for the id.
C5_ConcurrentIdempotent ==
  \A t \in TxIds : TotalCredits(t) <= 1 /\ RowCount(t) <= 1

\* C6: credit and row are jointly atomic: once no delivery of a transaction id is
\* being served (also after one that failed with 500), the credit and the row are
\* both there or both absent, and a retry never writes a second credit.
C6_CreditAndRowAtomic ==
  \A t \in TxIds :
     /\ TotalCredits(t) <= 1
     /\ ~InFlight(t) => TotalCredits(t) = RowCount(t)

\* C7: the row is recorded before the balance is incremented: no state has a credit
\* written for a transaction id that has no transactions row yet.
C7_RowBeforeCredit ==
  \A t \in TxIds : TotalCredits(t) >= 1 => RowCount(t) >= 1

\* C8: in every reachable state, also after a store failure or a crash between the two
\* writes, a transactions row for a transaction id means that the credit for it has
\* been written to that user's balance.
C8_RowImpliesCredit ==
  \A i \in DOMAIN transactions :
     /\ transactions[i].tx_id \in TxIds
     /\ transactions[i].user_id \in UserIds
     /\ credits[transactions[i].tx_id][transactions[i].user_id] >= 1

\* C8 witness: a row exists and a later delivery crashed or failed
C8_Witness ==
  /\ transactions # <<>>
  /\ resp \in {NoResponse, Response(500, "error")}

\* the validly signed deliveries whose confirmations are below the required count
BelowDeliveries == {d \in ValidDeliveries : BelowThreshold(d.payload)}

\* C9: threshold gating: a validly signed delivery whose confirmations are below the
\* count its asset requires returns 200 ("waiting") and changes no balance, no deposit
\* address and no transactions row.
C9_ThresholdGating ==
  [][\A p \in Procs, d \in BelowDeliveries, ok \in BOOLEAN :
       TatumReceive(p, d, ok)
         => (/\ resp' = Response(200, "Waiting for confirmations")
             /\ pc'[p] = "idle"
             /\ UNCHANGED <<users, transactions, credits, notified>>)]_vars

\* C9 witness: a delivery was answered "waiting"
C9_Witness == resp = Response(200, "Waiting for confirmations")

\* C10: liveness of crediting: when the sender keeps redelivering a signed payload
\* whose confirmations grow to the required count, to the address of a registered
\* user and with a store that does not fail, the deposit is eventually credited, and
\* over all the deliveries it is credited exactly once.
C10_EventuallyCreditedOnce ==
  \A t \in TxIds :
     /\ <>(TotalCredits(t) = 1 /\ RowCount(t) = 1)
     /\ [](TotalCredits(t) <= 1 /\ RowCount(t) <= 1)

\* C10 witness: credited once at the required count, and a later redelivery answered
C10_Witness ==
  /\ chain["tx1"] = RequiredConfirmations["BTC"]
  /\ TotalCredits("tx1") = 1
  /\ resp = Response(200, "Transaction already processed")

\* the deliveries that carry a signature header and a body, the header not being the
\* digest of the body under the shared key
MismatchDeliveries ==
  {d \in Deliveries :
     /\ d.signature.present
     /\ DOMAIN d.payload # {}
     /\ d.signature # Hmac(TATUM_API_KEY, d.payload)}

C12_MissingSignatureIs403 ==
  [][\A p \in Procs, d \in {e \in Deliveries : ~e.signature.present}, ok \in BOOLEAN :
       TatumReceive(p, d, ok)
         => (/\ resp' = Response(403, "Invalid signature")
             /\ UNCHANGED <<users, transactions, credits, applied, notified>>)]_vars

\* C13: withdrawal atomicity: when a Withdraw command has passed its checks and the
\* transfer of process_withdrawal fails, the command ends there, reports the failure
\* and leaves the balances of every user as they were: no debit is written.
C13_FailedTransferLeavesBalance ==
  [][\A p \in Procs, u \in UserIds, c \in CommandCryptos, a \in CommandAmounts :
       (/\ Upper(c) \in valid_cryptos
        /\ a > 0
        /\ users[u].balances[Upper(c)] >= a
        /\ Withdraw(p, u, c, a, TRUE, FALSE))
         => (/\ resp' = Reply("Withdrawal failed")
             /\ pc'[p] = "idle"
             /\ UNCHANGED <<users, applied, debits, transfers>>)]_vars

\* C13 witness: a withdrawal was answered "Withdrawal failed"
C13_Witness == resp = Reply("Withdrawal failed")

\* C14: the debit of a Withdraw is written only after the transfer has reported
\* success (never more debits written than transfers succeeded), and the write of a
\* successful Withdraw takes exactly the requested amount off the stored balance of
\* the asset.
C14_DebitAfterTransfer ==
  /\ [](debits <= transfers)
  /\ [][\A p \in Procs :
          WithdrawUpdate(p, TRUE)
            => users'[loc[p].user_id].balances[loc[p].crypto]
                 = users[loc[p].user_id].balances[loc[p].crypto] + loc[p].amount]_vars

\* C15: wager settlement.  With one request at a time, for every dice pair of
\* 1..6 x 1..6 and every positive bet not above the balance, the update of a Roll
\* stores the old balance plus the bet when the total is >= 7 and the old balance
\* minus the bet when it is <= 6.
C15_WagerSettlement ==
  [][\A p \in Procs :
       RollUpdate(p, TRUE)
         => LET l == loc[p]
                old == users[l.user_id].balances[l.crypto]
            IN /\ l.bet_amount > 0
               /\ l.bet_amount <= old
               /\ l.dice1 \in Dice /\ l.dice2 \in Dice
               /\ users'[l.user_id].balances[l.crypto] =
                     IF l.dice1 + l.dice2 >= 7 THEN old + l.bet_amount
                                               ELSE old - l.bet_amount]_vars

\* C15 witness: the whole balance of 10.0 SOL was bet and won: the balance is 20.0
C15_Witness ==
  /\ resp = Reply("You won")
  /\ users[1].balances["SOL"] = 20000

\* the addresses the issuer has handed out
Issued == {FreshAddresses[i] : i \in DOMAIN FreshAddresses}

\* C16: deposit address stability: an address once stored for, or shown to, a user
\* for an asset is the address the store holds for that user and asset in every later
\* state, under any interleaving of Deposit commands.
C16_AddressStable ==
  \A t \in shown \cup stored :
     /\ t[2] \in DOMAIN users[t[1]].deposit_addresses
     /\ users[t[1]].deposit_addresses[t[2]] = t[3]

\* C17: Deposit on a cached address: when the store holds an address for the user and
\* asset, the command goes from the select straight to the reply with that address,
\* and neither step calls the issuer, registers a subscription or writes the store.
C17_CachedDepositIdempotent ==
  /\ [][\A p \in Procs, u \in UserIds :
          \A c \in {x \in DepositCryptos : Upper(x) \in DOMAIN users[u].deposit_addresses} :
             Deposit(p, u, c, TRUE)
               => (/\ pc'[p] = "deposit_send"
                   /\ loc'[p].address = users[u].deposit_addresses[Upper(c)]
                   /\ UNCHANGED <<users, minted, subscribed, stored>>)]_vars
  /\ [][\A p \in Procs :
          DepositSend(p, TRUE)
            => (/\ resp' = Reply(loc[p].address)
                /\ pc'[p] = "idle"
                /\ UNCHANGED <<users, minted, subscribed, stored>>)]_vars

\* C17 witness: the stored address of user 1 for BTC was returned, no wallet generated
C17_Witness ==
  /\ resp = Reply("btc-1")
  /\ <<1, "BTC", "btc-1">> \in shown
  /\ minted = 0

\* C18: an address is sent to the user only after it has been written to the user's
\* deposit_addresses; when the generation fails or the write fails, the command ends
\* with a failure reply and sends no address.
C18_SentOnlyAfterPersisted ==
  /\ [](shown \subseteq stored)
  /\ [][\A p \in Procs, w \in BOOLEAN, a \in BOOLEAN, s \in BOOLEAN :
          (/\ ~w \/ (loc[p].crypto # "SOL" /\ ~a)
           /\ DepositGenerate(p, w, a, s))
            => (/\ resp' = Reply("Failed to generate a deposit address")
                /\ pc'[p] = "idle"
                /\ UNCHANGED <<users, shown, stored>>)]_vars
  /\ [][\A p \in Procs :
          DepositUpdate(p, FALSE)
            => (/\ resp' = Reply("An error occurred while generating the deposit address")
                /\ pc'[p] = "idle"
                /\ UNCHANGED <<users, shown, stored>>)]_vars

\* C18 witness: a newly issued address was sent, and it had been stored
C18_Witness ==
  \E t \in shown : t[3] \in Issued /\ t \in stored

\* C19: a failed subscription does not fail the issuance: when the wallet and address
\* calls succeed and the subscription call fails, generate_deposit_address returns the
\* address, and the command writes it to the store and sends it.
C19_SubscriptionFailureTolerated ==
  /\ [][\A p \in Procs :
          DepositGenerate(p, TRUE, TRUE, FALSE)
            => (/\ pc'[p] = "deposit_update"
                /\ loc'[p].address = FreshAddresses[minted + 1]
                /\ loc'[p].address \notin subscribed')]_vars
  /\ [][\A p \in Procs :
          (loc[p].address \notin subscribed /\ DepositUpdate(p, TRUE))
            => (/\ users'[loc[p].user_id].deposit_addresses[loc[p].crypto] = loc[p].address
                /\ pc'[p] = "deposit_send")]_vars
  /\ [][\A p \in Procs :
          (loc[p].address \notin subscribed /\ DepositSend(p, TRUE))
            => resp' = Reply(loc[p].address)]_vars

\* C19 witness: an issued address without a subscription is in the store and was sent
C19_Witness ==
  \E t \in shown :
     /\ t[3] \in Issued
     /\ t[3] \notin subscribed
     /\ users[t[1]].deposit_addresses[t[2]] = t[3]

\* the responses of a delivery that ends before the credit step
Rejections ==
  { Response(400, "Invalid request"), Response(403, "Invalid signature"),
    Response(400, "Unsupported currency"), Response(200, "Waiting for confirmations"),
    Response(200, "Transaction already processed"), Response(404, "User not found") }

\* C20: a delivery that ends before the credit step changes nothing.  Every step of a
\* delivery up to and including the user lookup (its arrival with the signature,
\* currency, threshold and duplicate gates, and the lookup) leaves all balances, all
\* deposit addresses and the transactions log as they were; and a delivery answered
\* with one of the rejections ends at one of these steps.
C20_RejectionsDoNotMutate ==
  /\ [][(ops' # ops \/ \E p \in Procs : pc[p] = "tatum_user" /\ pc'[p] # "tatum_user")
          => UNCHANGED <<users, transactions, credits>>]_vars
  /\ [][\A p \in Procs :
          (pc[p] # "idle" /\ pc'[p] = "idle" /\ resp' \in Rejections)
            => (pc[p] = "tatum_user" /\ UNCHANGED <<users, transactions, credits>>)]_vars

\* C20 witness: after a deposit was credited and recorded, a delivery to an address
\* nobody holds ended with 404
C20_Witness ==
  /\ resp = Response(404, "User not found")
  /\ transactions # <<>>

\* the currency names and the asset symbols the specification supports
SupportedCurrencies == {"SOLANA", "ETHEREUM", "LITECOIN", "BITCOIN"}
SupportedAssets == {"SOL", "ETH", "LTC", "BTC"}

\* no user holds the address for the asset
NobodyHolds(crypto, address) ==
  \A u \in DOMAIN users :
     crypto \in DOMAIN users[u].deposit_addresses
       => users[u].deposit_addresses[crypto] # address

\* the signed deliveries whose currency name is not a supported one
UnsupportedDeliveries ==
  {e \in ValidDeliveries : Upper(e.payload.currency) \notin SupportedCurrencies}

\* C21: webhook rejection outcomes: a validly signed delivery whose currency name maps
\* to no supported asset is answered 400 ("Unsupported currency"); a delivery that has
\* passed the signature, currency, threshold and duplicate gates and whose address no
\* user holds for the asset is answered 404 ("User not found").  Neither changes the
\* store.
C21_RejectionOutcomes ==
  /\ [][\A p \in Procs, ok \in BOOLEAN, d \in UnsupportedDeliveries :
             TatumReceive(p, d, ok)
               => (/\ resp' = Response(400, "Unsupported currency")
                   /\ pc'[p] = "idle"
                   /\ UNCHANGED <<users, transactions, credits, notified>>)]_vars
  /\ [][\A p \in Procs :
          (/\ NobodyHolds(loc[p].crypto, loc[p].address)
           /\ TatumSelectUser(p, TRUE))
            => (/\ resp' = Response(404, "User not found")
                /\ pc'[p] = "idle"
                /\ UNCHANGED <<users, transactions, credits, notified>>)]_vars

\* C21 witness: a second delivery, to an address nobody holds, was answered 404 with
\* nothing recorded
C21_Witness ==
  /\ resp = Response(404, "User not found")
  /\ ops = 2
  /\ transactions = <<>>

\* the store and the collaborators are as they were
NothingChanges ==
  UNCHANGED <<users, user_rows, transactions, credits, applied, notified, minted, subscribed,
              shown, stored, transfers, debits>>

\* the command arguments that name no supported asset
UnsupportedSymbols == {x \in BotCryptos : Upper(x) \notin SupportedAssets}

\* C22: a Roll, Deposit or Withdraw command naming an asset outside the supported set
\* (after upper-casing) is answered "Invalid cryptocurrency" and changes nothing:
\* balances, deposit addresses and the log stay, no issuer, watcher or transfer call.
C22_UnsupportedAssetRejected ==
  /\ [][\A p \in Procs, u \in ServeUsers, a \in BotAmounts, d \in BotDice,
           ok \in BOOLEAN, c \in UnsupportedSymbols :
             Roll(p, u, c, a, d[1], d[2], ok)
               => (resp' = Reply("Invalid cryptocurrency") /\ pc'[p] = "idle"
                   /\ NothingChanges)]_vars
  /\ [][\A p \in Procs, u \in ServeUsers, a \in BotAmounts, ok \in BOOLEAN,
           t \in BOOLEAN, c \in UnsupportedSymbols :
             Withdraw(p, u, c, a, ok, t)
               => (resp' = Reply("Invalid cryptocurrency") /\ pc'[p] = "idle"
                   /\ NothingChanges)]_vars
  /\ [][\A p \in Procs, u \in ServeUsers, ok \in BOOLEAN, c \in UnsupportedSymbols :
             Deposit(p, u, c, ok)
               => (resp' = Reply("Invalid cryptocurrency") /\ pc'[p] = "idle"
                   /\ NothingChanges)]_vars

\* C22 witness: a command was answered "Invalid cryptocurrency"
C22_Witness == resp = Reply("Invalid cryptocurrency")

\* C23: /start for a user id with no row creates exactly one row, with the default
\* balances and no deposit address; for a user id that has a row it changes nothing.
\* Stated on the table: no user id ever has more than one row, and a row that /start
\* has just created holds the defaults.
C23_StartCreatesOneRow ==
  /\ \A u \in CommandUsers : user_rows[u] <= 1
  /\ \A u \in DOMAIN users :
       (u \notin UserIds /\ resp = Reply("Welcome to the Casino Bot") /\ ops = 1)
         => users[u] = [balances |-> ("SOL" :> 10000) @@ ("LTC" :> 10000) @@ ("BTC" :> 1)
                                       @@ ("ETH" :> 10000),
                        deposit_addresses |-> <<>>]

\* no confirmation message was sent for the transaction id
Unnotified(tx_id) == \A u \in UserIds : <<u, tx_id>> \notin notified

\* C24: a failed notification does not roll back the credit.  The step in which the
\* send fails leaves the balances and the log as they are, with the credit and the row
\* of the transaction written; a transaction recorded but never notified, with no
\* delivery of it being served, has exactly one credit and one row however often it
\* was redelivered; a confirmed redelivery of it is answered "already processed" and
\* changes neither balances nor the log.
C24_NotifyFailureKeepsCredit ==
  /\ [][\A p \in Procs :
          TatumNotify(p, FALSE)
            => (/\ UNCHANGED <<users, transactions, credits>>
                /\ TotalCredits(loc[p].tx_id) = 1
                /\ RowCount(loc[p].tx_id) = 1)]_vars
  /\ [](\A t \in TxIds :
          (RowCount(t) >= 1 /\ Unnotified(t) /\ ~InFlight(t))
            => (TotalCredits(t) = 1 /\ RowCount(t) = 1))
  /\ [][\A p \in Procs, d \in ValidDeliveries :
          (/\ ThresholdMet(d.payload)
           /\ RowCount(d.payload.txId) >= 1
           /\ Unnotified(d.payload.txId)
           /\ ~InFlight(d.payload.txId)
           /\ TatumReceive(p, d, TRUE))
            => (/\ resp' = Response(200, "Transaction already processed")
                /\ pc'[p] = "idle"
                /\ UNCHANGED <<users, transactions, credits, notified>>)]_vars

\* C24 witness: the notification of tx1 failed and a redelivery of it was answered
\* "already processed", with its one credit and one row in place
C24_Witness ==
  /\ resp = Response(200, "Transaction already processed")
  /\ Unnotified("tx1")
  /\ TotalCredits("tx1") = 1
  /\ RowCount("tx1") = 1
  /\ ops = 2

\* the signed deliveries of a supported currency with enough confirmations
ConfirmedDeliveries == {e \in LedgerDeliveries : ThresholdMet(e.payload)}

\* C25: a store failure during a webhook delivery is answered 500.  Whichever store
\* call fails (the duplicate check of a signed, supported, confirmed delivery, the
\* user lookup, the balance update or the log insert), the delivery ends in that step
\* with the response 500, so no delivery in which a store call failed returns 200.
C25_StoreFailureIs500 ==
  /\ [][\A p \in Procs :
          (TatumSelectUser(p, FALSE) \/ TatumUpdate(p, FALSE) \/ TatumInsert(p, FALSE))
            => (resp'.status = 500 /\ pc'[p] = "idle")]_vars
  /\ [][\A p \in Procs, d \in ConfirmedDeliveries :
          TatumReceive(p, d, FALSE)
            => (resp'.status = 500 /\ pc'[p] = "idle")]_vars

\* C25 witness: a delivery that had written its credit was answered 500 when the
\* insert of its row failed
C25_Witness ==
  /\ resp.status = 500
  /\ TotalCredits("tx1") = 1
  /\ RowCount("tx1") = 0
  /\ ~InFlight("tx1")

\* C26: per-user isolation.  A step that changes the row of user u (balances or
\* deposit addresses) is a step of a request that acts on u, and it leaves the row of
\* every other user as it was, whatever requests on other users are being served.
C26_PerUserIsolation ==
  [][\A u \in DOMAIN users :
       users'[u] # users[u]
         => /\ \E p \in Procs :
                  pc[p] # "idle" /\ pc'[p] # pc[p] /\ loc[p].user_id = u
            /\ \A v \in DOMAIN users \ {u} : users'[v] = users[v]]_vars

\* C26 witness: a balance of user 1 was written while a request acting on user 2 was
\* being served, and the row of user 2 is the one it started with
C26_Witness ==
  /\ users[1].balances # DefaultBalances
  /\ \E p \in Procs : pc[p] # "idle" /\ loc[p].user_id = 2
  /\ users[2] = [balances |-> DefaultBalances, deposit_addresses |-> IssuedAddress[2]]

\* C27: the steps of one delivery come in the order verify, threshold gate, duplicate
\* check, credit, notify.  A delivery reaches the user lookup only from its arrival,
\* the balance update only from the lookup, the insert only from the update, the
\* notification only from the insert; a confirmation message is sent only by the
\* notification step of a delivery whose credit and row are written, and that
\* delivery is answered 200 "success" (so none that was rejected, pending or a
\* duplicate sends one); every message sent has its credit and its row.
C27_NotifyAfterCreditAndRow ==
  /\ [][\A p \in Procs :
          pc'[p] # pc[p]
            => /\ pc'[p] = "tatum_user" => pc[p] = "idle"
               /\ pc'[p] = "tatum_update" => pc[p] = "tatum_user"
               /\ pc'[p] = "tatum_insert" => pc[p] = "tatum_update"
               /\ pc'[p] = "tatum_notify" => pc[p] = "tatum_insert"]_vars
  /\ [][notified' # notified
          => \E p \in Procs :
                /\ pc[p] = "tatum_notify" /\ pc'[p] = "idle"
                /\ notified' = notified \cup {<<loc[p].user_id, loc[p].tx_id>>}
                /\ credits[loc[p].tx_id][loc[p].user_id] >= 1
                /\ RowCount(loc[p].tx_id) >= 1
                /\ resp' = Response(200, "success")]_vars
  /\ [](\A n \in notified : credits[n[2]][n[1]] >= 1 /\ RowCount(n[2]) >= 1)

\* C27 witness: the first delivery sent its message and was answered 200, with the
\* credit and the row written
C27_Witness ==
  /\ <<1, "tx1">> \in notified
  /\ resp = Response(200, "success")
  /\ credits["tx1"][1] = 1
  /\ RowCount("tx1") = 1
  /\ ops = 1

\* C28: cross-asset frame.  The step of a Roll, a Withdraw or a deposit credit that
\* writes user u's balance of asset A leaves u's balance of every other asset as last
\* committed, whatever balance operations on u's other assets are being served.
C28_CrossAssetFrame ==
  [][\A p \in Procs :
       (pc[p] \in {"roll_update", "withdraw_update", "tatum_update"} /\ pc'[p] # pc[p])
         => \A a \in SupportedAssets \ {loc[p].crypto} :
               users'[loc[p].user_id].balances[a] = users[loc[p].user_id].balances[a]]_vars

\* the addresses returned to the user for the asset
Returned(u, asset) == {t[3] : t \in {x \in shown : x[1] = u /\ x[2] = asset}}

\* C29: concurrent Deposit commands of one user for two different assets both keep
\* their address: once no request is being served, a user who was returned an address
\* for each of two different assets has, for each of the two, an address returned for
\* it in the stored deposit_addresses.
C29_BothAddressesKept ==
  (\A p \in Procs : pc[p] = "idle")
    => \A t1 \in shown, t2 \in shown :
          (t1[1] = t2[1] /\ t1[2] # t2[2])
            => /\ t1[2] \in DOMAIN users[t1[1]].deposit_addresses
               /\ users[t1[1]].deposit_addresses[t1[2]] \in Returned(t1[1], t1[2])

\* the command arguments that name a supported asset
SupportedSymbols == {x \in BotCryptos : Upper(x) \in SupportedAssets}

\* the step serves the request at once and leaves the store and the collaborators alone
ServedWithoutEffect(p) == pc'[p] = "idle" /\ NothingChanges

\* C30: Balance, Roll, Deposit and Withdraw for a user id that has no row change no
\* state (no row created, no issuer, watcher or transfer call, no write), whatever
\* their arguments; when the command is well formed (supported asset, positive
\* amount) and its select succeeds, the reply is "not registered".
C30_UnregisteredRejected ==
  /\ [][\A p \in Procs, u \in {v \in ServeUsers : user_rows[v] = 0}, ok \in BOOLEAN :
          Balance(p, u, ok)
            => /\ ServedWithoutEffect(p)
               /\ ok => resp' = Reply("not registered")]_vars
  /\ [][\A p \in Procs, u \in {v \in ServeUsers : user_rows[v] = 0}, c \in ServeCryptos,
           a \in BotAmounts, d \in BotDice, ok \in BOOLEAN :
          Roll(p, u, c, a, d[1], d[2], ok)
            => /\ ServedWithoutEffect(p)
               /\ (ok /\ c \in SupportedSymbols /\ a > 0) => resp' = Reply("not registered")]_vars
  /\ [][\A p \in Procs, u \in {v \in ServeUsers : user_rows[v] = 0}, c \in ServeCryptos,
           a \in BotAmounts, ok \in BOOLEAN, t \in BOOLEAN :
          Withdraw(p, u, c, a, ok, t)
            => /\ ServedWithoutEffect(p)
               /\ (ok /\ c \in SupportedSymbols /\ a > 0) => resp' = Reply("not registered")]_vars
  /\ [][\A p \in Procs, u \in {v \in ServeUsers : user_rows[v] = 0}, c \in BotCryptos,
           ok \in BOOLEAN :
          Deposit(p, u, c, ok)
            => /\ ServedWithoutEffect(p)
               /\ (ok /\ c \in SupportedSymbols) => resp' = Reply("not registered")]_vars

\* C30 witness: a command of user 3, who has no row, was answered "not registered"
\* and there is still no row for user 3
C30_Witness ==
  /\ resp = Reply("not registered")
  /\ user_rows[3] = 0
  /\ 3 \notin DOMAIN users

\* C31: a deposit credit never lowers a balance.  The step that writes the credit of
\* a delivery adds a strictly positive amount, leaving the balance of the asset higher
\* than the one the delivery read, and every row of the transactions log carries a
\* strictly positive amount (so a signed payload with a zero, missing or negative
\* amount is neither credited nor recorded).
C31_CreditIsPositive ==
  /\ [][\A p \in Procs :
          (pc[p] = "tatum_update" /\ pc'[p] = "tatum_insert")
            => /\ loc[p].amount > 0
               /\ users'[loc[p].user_id].balances[loc[p].crypto]
                    > loc[p].balances[loc[p].crypto]]_vars
  /\ [](\A i \in DOMAIN transactions : transactions[i].amount > 0)

====
